---------------------------- MODULE Spec2Model ----------------------------
(***************************************************************************)
(* A state-machine model of ising.py: single-spin-flip Metropolis sampling *)
(* of the 2D Ising model on a periodic square lattice.                     *)
(*                                                                         *)
(* Numbers.  Spins are the integers -1 and +1 (np.ones gives 1.0, which    *)
(* multiplies and compares as 1).  Reals are kept exact:                   *)
(*   - a quotient is a pair <<numerator, denominator>>; <<0, 0>> is the    *)
(*     NaN numpy returns for 0/0;                                          *)
(*   - a uniform draw of np.random.rand() is an integer number of          *)
(*     millionths, 0 .. 999999;                                            *)
(*   - np.exp(x) is the smallest integer number of millionths that is      *)
(*     >= exp(x).  exp(x) is irrational for the exponents that occur, so   *)
(*     for a draw u on the grid  exp(x) > u  <=>  ExpMicro(x) > u.         *)
(***************************************************************************)
EXTENDS Integers, Sequences, FiniteSets

\* ------------------------------------------------------------------ bounds
\* Largest lattice size handed to BuildSystem (sizes run from -1 to MaxSize).
MaxSize == 3
\* Coordinates handed to BoundaryCondition run from -MaxCoord to MaxCoord.
MaxCoord == 20
\* Largest lattice size of a whole run of main (sizes 1 .. MaxRunSize).
MaxRunSize == 2
\* Largest epoch count of a whole run of main (0 .. MaxEpochs).
MaxEpochs == 76

\* --------------------------------------------------------------- constants
\* Run samples a frame every epochs // 75 epochs.
FrameCount == 75

\* ------------------------------------------------------------------ inputs
Modes == {"r", "u", "bogus"}
Sizes == -1 .. MaxSize
\* Temperatures: 1 and 4 (exponents -4, -8 and -1, -2), 0 (division by
\* zero) and -4 (exponents 1 and 2).
Temps == {-4, 0, 1, 4}
\* Draws of np.random.rand(), in millionths: the two ends of [0, 1) and the
\* grid points on both sides of the smallest and the largest acceptance
\* probability below 1, exp(-8/1) and exp(-4/4).
Draws == {0, 335, 336, 367879, 367880, 999999}
\* The draw recorded for a step that did not call np.random.rand().
NoDraw == 0 - 1

VARIABLES
  built,    \* TRUE once BuildSystem has returned a lattice
  lattice,  \* the IsingLattice: [size, T, system]
  before,   \* the lattice as it was when the last operation began
  op,       \* the last operation called
  arg,      \* its inputs and random draws
  err,      \* the exception it raised, or "none"
  result,   \* the quotients it returned
  pc,       \* position of main
  epochs,   \* main's --epochs
  video,    \* main's --video
  epoch,    \* Run's loop variable
  steps,    \* UpdateLattice calls made by Run
  frames    \* frames grabbed by Run

vars == <<built, lattice, before, op, arg, err, result,
          pc, epochs, video, epoch, steps, frames>>

\* ----------------------------------------------------------------- lattice
Sites(size) == (0 .. size - 1) \X (0 .. size - 1)

IsingLattice(size, T, system) == [size |-> size, T |-> T, system |-> system]

NoLattice == IsingLattice(0, 0, <<>>)

NoArg == [mode |-> "", size |-> 0, T |-> 0, N |-> 0, M |-> 0, u |-> NoDraw, i |-> 0]

Return(lat) == [err |-> "none", built |-> TRUE, lattice |-> lat]

Raise(e) == [err |-> e, built |-> FALSE, lattice |-> NoLattice]

\* np.random.choice([-1, 1], sq_size): every array of that shape.
RandomChoice(size) == [Sites(size) -> {-1, 1}]

\* np.ones(sq_size)
Ones(size) == [p \in Sites(size) |-> 1]

\* A mutant of BuildSystem: spins drawn from {0, 1}.
BuildSystemZeroOne(initial_state, size, temperature) ==
  IF initial_state = "r"
  THEN IF size < 0 THEN {Raise("ValueError")}
       ELSE {Return(IsingLattice(size, temperature, a)) : a \in [Sites(size) -> {0, 1}]}
  ELSE IF initial_state = "u"
  THEN IF size < 0 THEN {Raise("ValueError")}
       ELSE {Return(IsingLattice(size, temperature, Ones(size)))}
  ELSE {Raise("ValueError")}

\* A mutant of BuildSystem: an unknown mode falls back to the uniform lattice.
BuildSystemFallback(initial_state, size, temperature) ==
  IF initial_state = "r"
  THEN IF size < 0 THEN {Raise("ValueError")}
       ELSE {Return(IsingLattice(size, temperature, a)) : a \in RandomChoice(size)}
  ELSE IF size < 0 THEN {Raise("ValueError")}
       ELSE {Return(IsingLattice(size, temperature, Ones(size)))}

\* BuildSystem: the set of its outcomes.  numpy raises ValueError for a
\* negative dimension and builds an empty array for dimension 0.
BuildSystem(initial_state, size, temperature) ==
  IF initial_state = "r"
  THEN IF size < 0 THEN {Raise("ValueError")}
       ELSE {Return(IsingLattice(size, temperature, a)) : a \in RandomChoice(size)}
  ELSE IF initial_state = "u"
  THEN IF size < 0 THEN {Raise("ValueError")}
       ELSE {Return(IsingLattice(size, temperature, Ones(size)))}
  ELSE {Raise("ValueError")}

\* ---------------------------------------------------------------- boundary
\* A mutant of BoundaryCondition: the truncating remainder of C and Java.
BoundaryConditionTrunc(i, lat) ==
  IF i < 0 THEN 0 - ((0 - i) % lat.size) ELSE i % lat.size

\* BoundaryCondition: Python's %, the floor modulus.
BoundaryCondition(i, lat) == i - lat.size * (i \div lat.size)

\* ------------------------------------------------------------------ energy
\* A mutant of CalculateEnergy: the docstring's factor 1 instead of 2.
CalculateEnergyFactorOne(lat, N, M) ==
  LET n1 == lat.system[<<BoundaryCondition(N - 1, lat), M>>]
      n2 == n1 + lat.system[<<BoundaryCondition(N + 1, lat), M>>]
      n3 == n2 + lat.system[<<N, BoundaryCondition(M - 1, lat)>>]
      neighbor_energy == n3 + lat.system[<<N, BoundaryCondition(M + 1, lat)>>]
  IN  (0 - 1) * lat.system[<<N, M>>] * neighbor_energy

\* A mutant of CalculateEnergy: the site's own spin left out of the product.
CalculateEnergyNoSpin(lat, N, M) ==
  LET n1 == lat.system[<<BoundaryCondition(N - 1, lat), M>>]
      n2 == n1 + lat.system[<<BoundaryCondition(N + 1, lat), M>>]
      n3 == n2 + lat.system[<<N, BoundaryCondition(M - 1, lat)>>]
      neighbor_energy == n3 + lat.system[<<N, BoundaryCondition(M + 1, lat)>>]
  IN  (0 - 2) * neighbor_energy

\* A mutant of CalculateEnergy: the second loop visits column M-1 only.
CalculateEnergyThreeNeighbors(lat, N, M) ==
  LET n1 == lat.system[<<BoundaryCondition(N - 1, lat), M>>]
      n2 == n1 + lat.system[<<BoundaryCondition(N + 1, lat), M>>]
      neighbor_energy == n2 + lat.system[<<N, BoundaryCondition(M - 1, lat)>>]
  IN  (0 - 2) * lat.system[<<N, M>>] * neighbor_energy

\* CalculateEnergy: neighbor_energy accumulates rows N-1, N+1, then columns
\* M-1, M+1, each through BoundaryCondition.
CalculateEnergy(lat, N, M) ==
  LET n1 == lat.system[<<BoundaryCondition(N - 1, lat), M>>]
      n2 == n1 + lat.system[<<BoundaryCondition(N + 1, lat), M>>]
      n3 == n2 + lat.system[<<N, BoundaryCondition(M - 1, lat)>>]
      neighbor_energy == n3 + lat.system[<<N, BoundaryCondition(M + 1, lat)>>]
  IN  (0 - 2) * lat.system[<<N, M>>] * neighbor_energy

\* -------------------------------------------------------------------- step
\* np.exp(num / den) in millionths, rounded up.  numpy divides by zero to
\* -inf for num < 0 (a warning, no exception), and exp(-inf) is 0.
ExpMicro(num, den) ==
  IF den = 0 THEN 0
  ELSE LET x == num \div den
       IN  CASE x = 0 - 8 -> 336
             [] x = 0 - 4 -> 18316
             [] x = 0 - 2 -> 135336
             [] x = 0 - 1 -> 367880
             [] x = 1 -> 2718282
             [] x = 2 -> 7389057

\* lattice.system[N, M] *= -1
Flip(lat, N, M) ==
  [lat EXCEPT !.system[<<N, M>>] = @ * (0 - 1)]

\* Whether UpdateLattice reaches np.random.rand() at site (N, M).
NeedsDraw(lat, N, M) == (0 - 1) * CalculateEnergy(lat, N, M) > 0

\* A mutant of UpdateLattice: the sign of the energy delta dropped.
UpdateLatticeNoSign(lat, N, M, u) ==
  LET dE == CalculateEnergy(lat, N, M)
  IN  IF dE <= 0 THEN Flip(lat, N, M)
      ELSE IF ExpMicro((0 - dE) * 1, lat.T) > u THEN Flip(lat, N, M)
      ELSE lat

\* UpdateLattice at the drawn site (N, M) with the drawn value u.
UpdateLattice(lat, N, M, u) ==
  LET dE == (0 - 1) * CalculateEnergy(lat, N, M)
  IN  IF dE <= 0 THEN Flip(lat, N, M)
      ELSE IF ExpMicro((0 - dE) * 1, lat.T) > u THEN Flip(lat, N, M)
      ELSE lat

\* ------------------------------------------------------------- observables
RECURSIVE SumOver(_, _)
SumOver(f, S) ==
  IF S = {} THEN 0
  ELSE LET p == CHOOSE q \in S : TRUE
       IN  f[p] + SumOver(f, S \ {p})

\* InternalEnergy's accumulator E.
EnergySum(lat) ==
  SumOver([p \in Sites(lat.size) |-> CalculateEnergy(lat, p[1], p[2])],
          Sites(lat.size))

\* InternalEnergy's accumulator E_2.
EnergySquareSum(lat) ==
  SumOver([p \in Sites(lat.size) |->
             CalculateEnergy(lat, p[1], p[2]) * CalculateEnergy(lat, p[1], p[2])],
          Sites(lat.size))

\* InternalEnergy: <<U, U_2>>; 1/lattice.size**2 divides Python ints and
\* raises ZeroDivisionError for size 0.
InternalEnergy(lat) ==
  IF lat.size * lat.size = 0
  THEN [err |-> "ZeroDivisionError", value |-> <<>>]
  ELSE [err |-> "none",
        value |-> << <<EnergySum(lat), lat.size * lat.size>>,
                     <<EnergySquareSum(lat), lat.size * lat.size>> >>]

\* HeatCapacity: U_2 - U**2 over the common denominator size**4.
HeatCapacity(lat) ==
  LET ie == InternalEnergy(lat)
  IN  IF ie.err # "none" THEN ie
      ELSE LET U == ie.value[1]
               U_2 == ie.value[2]
           IN  [err |-> "none",
                value |-> << <<U_2[1] * U[2] - U[1] * U[1], U[2] * U[2]>> >>]

Abs(x) == IF x < 0 THEN 0 - x ELSE x

\* Magnetization: numpy divides 0 by 0 to NaN (a warning, no exception).
Magnetization(lat) ==
  [err |-> "none",
   value |-> << <<Abs(SumOver(lat.system, Sites(lat.size))), lat.size * lat.size>> >>]

\* ------------------------------------------------- the functions, called
NoRun == /\ pc = "api"
         /\ UNCHANGED <<pc, epochs, video, epoch, steps, frames>>

Init ==
  /\ built = FALSE
  /\ lattice = NoLattice
  /\ before = NoLattice
  /\ op = "none"
  /\ arg = NoArg
  /\ err = "none"
  /\ result = <<>>
  /\ pc = "api"
  /\ epochs = 0
  /\ video = FALSE
  /\ epoch = 0
  /\ steps = 0
  /\ frames = 0

\* lattice = BuildSystem(initial_state, size, temperature)
Build ==
  /\ NoRun
  /\ ~built
  /\ \E mode \in Modes, size \in Sizes, T \in Temps :
       \E out \in BuildSystem(mode, size, T) :
         /\ built' = out.built
         /\ lattice' = out.lattice
         /\ err' = out.err
         /\ arg' = [NoArg EXCEPT !.mode = mode, !.size = size, !.T = T]
  /\ before' = lattice
  /\ op' = "build"
  /\ result' = <<>>

\* UpdateLattice(lattice): np.random.randint(0, size, 2) raises ValueError
\* for size 0; np.random.rand() is drawn only on the elif branch.
Step ==
  /\ NoRun
  /\ built
  /\ IF lattice.size <= 0
     THEN /\ err' = "ValueError"
          /\ arg' = NoArg
          /\ UNCHANGED lattice
     ELSE \E N \in 0 .. lattice.size - 1, M \in 0 .. lattice.size - 1 :
            \E u \in IF NeedsDraw(lattice, N, M) THEN Draws ELSE {NoDraw} :
              /\ lattice' = UpdateLattice(lattice, N, M, u)
              /\ arg' = [NoArg EXCEPT !.N = N, !.M = M, !.u = u]
              /\ err' = "none"
  /\ before' = lattice
  /\ op' = "step"
  /\ result' = <<>>
  /\ UNCHANGED built

Observe(name, out) ==
  /\ NoRun
  /\ built
  /\ op' = name
  /\ err' = out.err
  /\ result' = out.value
  /\ before' = lattice
  /\ arg' = NoArg
  /\ UNCHANGED <<built, lattice>>

CallInternalEnergy == Observe("internalEnergy", InternalEnergy(lattice))

CallHeatCapacity == Observe("heatCapacity", HeatCapacity(lattice))

CallMagnetization == Observe("magnetization", Magnetization(lattice))

Next ==
  \/ Build
  \/ Step
  \/ CallInternalEnergy
  \/ CallHeatCapacity
  \/ CallMagnetization

Spec == Init /\ [][Next]_vars

\* ------------------------------------------- BoundaryCondition, called alone
\* BoundaryCondition reads only lattice.size: the lattices are the uniform
\* ones of every positive size, the coordinates every integer in the bound.
InitWrap ==
  /\ built = TRUE
  /\ \E size \in 1 .. MaxSize : lattice = IsingLattice(size, 1, Ones(size))
  /\ before = lattice
  /\ op = "none"
  /\ arg = NoArg
  /\ err = "none"
  /\ result = <<>>
  /\ pc = "api"
  /\ epochs = 0
  /\ video = FALSE
  /\ epoch = 0
  /\ steps = 0
  /\ frames = 0

CallBoundaryCondition ==
  /\ NoRun
  /\ \E i \in (0 - MaxCoord) .. MaxCoord :
       /\ arg' = [NoArg EXCEPT !.i = i]
       /\ result' = << <<BoundaryCondition(i, lattice), 1>> >>
  /\ op' = "BoundaryCondition"
  /\ err' = "none"
  /\ UNCHANGED <<built, lattice, before>>

NextWrap == CallBoundaryCondition

SpecWrap == InitWrap /\ [][NextWrap]_vars

\* ------------------------------------------------------------ main and Run
\* main's options: click admits only the modes r and u; the sizes are the
\* positive ones.
InitRun ==
  /\ built = FALSE
  /\ lattice = NoLattice
  /\ before = NoLattice
  /\ op = "none"
  /\ arg = NoArg
  /\ err = "none"
  /\ result = <<>>
  /\ pc = "main"
  /\ epochs \in 0 .. MaxEpochs
  /\ video \in BOOLEAN
  /\ epoch = 0
  /\ steps = 0
  /\ frames = 0

\* lattice = BuildSystem(...), then Run up to the loop.
MainBuild ==
  /\ pc = "main"
  /\ \E mode \in {"r", "u"}, size \in 1 .. MaxRunSize, T \in Temps :
       \E out \in BuildSystem(mode, size, T) :
         /\ built' = out.built
         /\ lattice' = out.lattice
         /\ err' = out.err
  /\ pc' = "loop"
  /\ op' = "build"
  /\ UNCHANGED <<before, arg, result, epochs, video, epoch, steps, frames>>

\* One iteration of Run's loop: UpdateLattice, then the frame test
\* video and epoch % (epochs//75) == 0, which divides by zero for
\* epochs < 75, then the frame grab, which only reads lattice.system.
RunEpoch ==
  /\ pc = "loop"
  /\ epoch < epochs
  /\ \E N \in 0 .. lattice.size - 1, M \in 0 .. lattice.size - 1 :
       \E u \in IF NeedsDraw(lattice, N, M) THEN Draws ELSE {NoDraw} :
         lattice' = UpdateLattice(lattice, N, M, u)
  /\ steps' = steps + 1
  /\ op' = "step"
  /\ IF video /\ epochs \div FrameCount = 0
     THEN /\ err' = "ZeroDivisionError"
          /\ pc' = "failed"
          /\ UNCHANGED <<epoch, frames>>
     ELSE /\ frames' = IF video /\ epoch % (epochs \div FrameCount) = 0
                       THEN frames + 1 ELSE frames
          /\ epoch' = epoch + 1
          /\ UNCHANGED <<err, pc>>
  /\ UNCHANGED <<built, before, arg, result, epochs, video>>

\* The loop ends; plt.close('all').
RunReturn ==
  /\ pc = "loop"
  /\ epoch >= epochs
  /\ pc' = "observe"
  /\ UNCHANGED <<built, lattice, before, op, arg, err, result,
                 epochs, video, epoch, steps, frames>>

\* main prints Magnetization(lattice) and HeatCapacity(lattice).
MainObserve ==
  /\ pc = "observe"
  /\ LET m == Magnetization(lattice)
         c == HeatCapacity(lattice)
     IN  IF c.err # "none"
         THEN /\ err' = c.err
              /\ pc' = "failed"
              /\ result' = m.value
         ELSE /\ err' = "none"
              /\ pc' = "done"
              /\ result' = m.value \o c.value
  /\ op' = "observe"
  /\ UNCHANGED <<built, lattice, before, arg, epochs, video, epoch, steps, frames>>

NextRun ==
  \/ MainBuild
  \/ RunEpoch
  \/ RunReturn
  \/ MainObserve

SpecRun == InitRun /\ [][NextRun]_vars

\* ===================================================================== claims
\* Reference definitions used by the claims (mathematics, not code).

\* The mathematical i mod n for n > 0 and -n <= i < 2n.
MathMod(i, n) == CHOOSE r \in 0 .. n - 1 : \E k \in (0 - 1) .. 1 : i = k * n + r

\* The nearest-neighbour bond energy -sum s_i s_j of the periodic lattice:
\* every site's bond to the site below it and to the site right of it.
BondEnergy(lat) ==
  (0 - 1) * SumOver([p \in Sites(lat.size) |->
                       lat.system[p] * ( lat.system[<<MathMod(p[1] + 1, lat.size), p[2]>>]
                                       + lat.system[<<p[1], MathMod(p[2] + 1, lat.size)>>] )],
                    Sites(lat.size))

\* The lattice with every spin negated.
Negated(lat) == [lat EXCEPT !.system = [p \in DOMAIN lat.system |-> (0 - 1) * lat.system[p]]]

\* The last operation was a step that selected a site.
Stepped == op = "step" /\ err = "none"

\* The energy delta the last step computed, from the lattice it began with.
LastDelta == (0 - 1) * CalculateEnergy(before, arg.N, arg.M)

\* The last step negated the selected spin.
LastFlipped ==
  lattice.system[<<arg.N, arg.M>>] = (0 - 1) * before.system[<<arg.N, arg.M>>]

\* C1: every cell of a lattice that build returned is -1 or +1, after any
\* sequence of step calls with any draws; the array keeps its size x size shape.
C1_SpinsAreUnits ==
  built => /\ DOMAIN lattice.system = Sites(lattice.size)
           /\ \A p \in DOMAIN lattice.system : lattice.system[p] \in {-1, 1}

\* C1 witness: a step has just flipped a spin of a 3 x 3 lattice.
C1_Witness ==
  Stepped /\ lattice.size = 3 /\ LastFlipped /\ lattice # before

\* C2: a step at site (N, M) with delta = -localEnergy(N, M) negates the spin
\* unconditionally when delta <= 0, and when delta > 0 negates it iff
\* exp(-delta / temperature) > the draw; no other cell changes, and a
\* rejected move leaves the whole lattice unchanged.
C2_Metropolis ==
  Stepped =>
    /\ LastDelta <= 0 => LastFlipped
    /\ LastDelta > 0 => (LastFlipped <=> ExpMicro(0 - LastDelta, before.T) > arg.u)
    /\ \A p \in Sites(before.size) \ {<<arg.N, arg.M>>} :
         lattice.system[p] = before.system[p]
    /\ ~LastFlipped => lattice = before
    /\ lattice.size = before.size /\ lattice.T = before.T
    /\ DOMAIN lattice.system = DOMAIN before.system

\* C2 witness: an energy-raising move on a 3 x 3 lattice at temperature 1 was
\* rejected by a draw just above its acceptance probability.
C2_Witness ==
  /\ Stepped /\ before.size = 3 /\ before.T = 1
  /\ LastDelta = 8 /\ arg.u = 336 /\ lattice = before

\* C3: for size > 0, wrap(i, size) lies in [0, size) and differs from i by a
\* multiple of size; wrap(-1, size) = size - 1 and wrap(size, size) = 0.
C3_WrapIsMathMod ==
  op = "BoundaryCondition" =>
    LET r == result[1][1]
        n == lattice.size
    IN  /\ r \in 0 .. n - 1
        /\ \E k \in (0 - MaxCoord - 1) .. (MaxCoord + 1) : arg.i = k * n + r
        /\ arg.i = 0 - 1 => r = n - 1
        /\ arg.i = n => r = 0

\* C3 witness: wrap(-1, 3) returned 2.
C3_Witness ==
  op = "BoundaryCondition" /\ arg.i = 0 - 1 /\ lattice.size = 3 /\ result = << <<2, 1>> >>

C6_OnlyBuildFails ==
  /\ (op = "build" /\ arg.size <= 0) => err # "none"
  /\ op \in {"step", "internalEnergy", "heatCapacity", "magnetization"} => err = "none"

C8_InversionInvariant ==
  built =>
    /\ InternalEnergy(Negated(lattice)) = InternalEnergy(lattice)
    /\ HeatCapacity(Negated(lattice)) = HeatCapacity(lattice)
    /\ op = "internalEnergy" => result = InternalEnergy(Negated(lattice)).value
    /\ op = "heatCapacity" => result = HeatCapacity(Negated(lattice)).value

\* C8 witness: HeatCapacity returned a non-zero value on a 3 x 3 lattice
\* with spins of both signs and non-zero internal energy.
C8_Witness ==
  /\ op = "heatCapacity" /\ err = "none" /\ lattice.size = 3
  /\ result[1][1] # 0
  /\ EnergySum(lattice) # 0
  /\ \E p, q \in Sites(3) : lattice.system[p] # lattice.system[q]

\* C9: build with a mode other than r and u raises the invalid-argument
\* error and returns no lattice, for every size and temperature.
C9_UnknownModeRejected ==
  (op = "build" /\ arg.mode \notin {"r", "u"}) =>
    (err = "ValueError" /\ ~built /\ lattice = NoLattice)

\* C9 witness: build('bogus', 3, 1) raised ValueError.
C9_Witness ==
  /\ op = "build" /\ arg.mode = "bogus" /\ arg.size = 3 /\ arg.T = 1
  /\ err = "ValueError" /\ ~built

\* C10 as stated: for every epoch count >= 0 and either video setting the
\* run never aborts, and when the loop has ended it has made exactly
\* `epochs` step calls.
C10_RunCompletes ==
  /\ pc # "failed"
  /\ pc \in {"observe", "done"} => steps = epochs

=============================================================================
